---- MODULE Spec2Model ----
(***************************************************************************)
(* A model of the path tracer UltraAsta/ray-tracing: the f64 arithmetic    *)
(* the intersection code relies on, the primitives (Sphere, Square, Disk,  *)
(* Cylinder, Cube), the HittableList aggregate, Metal::new, write_color,   *)
(* ray_color and the render loop of main.                                  *)
(*                                                                         *)
(* Numbers.  An f64 is modelled as an exact extended rational: <<n, d>>    *)
(* with d > 0 in lowest terms is n/d, <<1, 0>> is +inf, <<-1, 0>> is -inf  *)
(* and <<0, 0>> is NaN.  Arithmetic and comparisons follow IEEE-754 on     *)
(* these values (every comparison with NaN is false, 0/0 is NaN); rounding *)
(* is not modelled, and the inputs are chosen so that every square root    *)
(* taken is rational.                                                      *)
(***************************************************************************)
EXTENDS Integers, Sequences, FiniteSets, TLC

(***************************************************************************)
(* f64 arithmetic                                                          *)
(***************************************************************************)
NaN == <<0, 0>>
PInf == <<1, 0>>
NInf == <<-1, 0>>

IAbs(i) == IF i < 0 THEN -i ELSE i
ISgn(i) == IF i < 0 THEN -1 ELSE IF i > 0 THEN 1 ELSE 0

RECURSIVE GCD(_, _)
GCD(a, b) == IF b = 0 THEN a ELSE GCD(b, a % b)

\* the rational n/d (d # 0) in lowest terms with a positive denominator
Q(n, d) ==
    LET g == GCD(IAbs(n), IAbs(d))
        s == IF d < 0 THEN -1 ELSE 1
    IN  <<(s * n) \div g, (s * d) \div g>>

I(n) == <<n, 1>>
Zero == I(0)
One == I(1)

IsNaN(x) == x = NaN
IsFinite(x) == x[2] > 0

Neg(x) == <<-x[1], x[2]>>

Add(x, y) ==
    IF IsNaN(x) \/ IsNaN(y) THEN NaN
    ELSE IF x[2] = 0 THEN (IF y[2] = 0 /\ y[1] # x[1] THEN NaN ELSE x)
    ELSE IF y[2] = 0 THEN y
    ELSE Q(x[1] * y[2] + y[1] * x[2], x[2] * y[2])

Sub(x, y) == Add(x, Neg(y))

Mul(x, y) ==
    IF IsNaN(x) \/ IsNaN(y) THEN NaN
    ELSE IF x[2] = 0 \/ y[2] = 0
         THEN (IF x[1] = 0 \/ y[1] = 0 THEN NaN ELSE <<ISgn(x[1]) * ISgn(y[1]), 0>>)
    ELSE LET g1 == GCD(IAbs(x[1]), y[2])
             g2 == GCD(IAbs(y[1]), x[2])
         IN  <<(x[1] \div g1) * (y[1] \div g2), (x[2] \div g2) * (y[2] \div g1)>>

\* A zero divisor is taken as +0.0: the divisors that can vanish in this
\* program are sums of squares.
Div(x, y) ==
    IF IsNaN(x) \/ IsNaN(y) THEN NaN
    ELSE IF y[2] = 0 THEN (IF x[2] = 0 THEN NaN ELSE Zero)
    ELSE IF y[1] = 0 THEN (IF x[1] = 0 THEN NaN ELSE <<ISgn(x[1]), 0>>)
    ELSE IF x[2] = 0 THEN <<ISgn(x[1]) * ISgn(y[1]), 0>>
    ELSE Q(x[1] * y[2], x[2] * y[1])

\* a/b < c/d for b > 0 and d > 0, by the integer parts and then the
\* reciprocals of the fractional parts (no product is formed)
RECURSIVE FracLt(_, _, _, _)
FracLt(a, b, c, d) ==
    IF a \div b # c \div d THEN a \div b < c \div d
    ELSE IF c % d = 0 THEN FALSE
    ELSE IF a % b = 0 THEN TRUE
    ELSE FracLt(d, c % d, b, a % b)

Lt(x, y) ==
    /\ ~IsNaN(x)
    /\ ~IsNaN(y)
    /\ IF x[2] = 0 /\ y[2] = 0 THEN x[1] < y[1]
       ELSE IF x[2] = 0 THEN x[1] < 0
       ELSE IF y[2] = 0 THEN y[1] > 0
       ELSE FracLt(x[1], x[2], y[1], y[2])

Le(x, y) == ~IsNaN(x) /\ ~IsNaN(y) /\ ~Lt(y, x)
Gt(x, y) == Lt(y, x)
Ge(x, y) == Le(y, x)

FAbs(x) == <<IAbs(x[1]), x[2]>>

\* the natural k with k * k = n; undefined (a TLC error) when n is no square
RECURSIVE ISqrtFrom(_, _)
ISqrtFrom(n, k) == IF k * k >= n THEN k ELSE ISqrtFrom(n, k + 1)
IsSquare(n) == n >= 0 /\ ISqrtFrom(n, 0) * ISqrtFrom(n, 0) = n
ISqrt(n) == CHOOSE k \in {ISqrtFrom(n, 0)} : k * k = n

IsSquareQ(x) == IsFinite(x) /\ IsSquare(x[1]) /\ IsSquare(x[2])

Sqrt(x) ==
    IF IsNaN(x) \/ x[1] < 0 THEN NaN
    ELSE IF x[2] = 0 THEN PInf
    ELSE <<ISqrt(x[1]), ISqrt(x[2])>>

(***************************************************************************)
(* Vec3, Ray, HitRecord                                                    *)
(***************************************************************************)
V(x, y, z) == <<I(x), I(y), I(z)>>

VAdd(a, b) == <<Add(a[1], b[1]), Add(a[2], b[2]), Add(a[3], b[3])>>
VSub(a, b) == <<Sub(a[1], b[1]), Sub(a[2], b[2]), Sub(a[3], b[3])>>
VNeg(a) == <<Neg(a[1]), Neg(a[2]), Neg(a[3])>>
VScale(a, s) == <<Mul(a[1], s), Mul(a[2], s), Mul(a[3], s)>>
VDiv(a, s) == <<Div(a[1], s), Div(a[2], s), Div(a[3], s)>>

dot(a, b) == Add(Add(Mul(a[1], b[1]), Mul(a[2], b[2])), Mul(a[3], b[3]))

cross(a, b) ==
    << Sub(Mul(a[2], b[3]), Mul(a[3], b[2])),
       Sub(Mul(a[3], b[1]), Mul(a[1], b[3])),
       Sub(Mul(a[1], b[2]), Mul(a[2], b[1])) >>

length_squared(a) == dot(a, a)
length(a) == Sqrt(length_squared(a))
unit_vector(a) == VDiv(a, length(a))

Ray(origin, direction) == [orig |-> origin, dir |-> direction]

\* Ray.at(t) = origin + t * direction
at(r, t) == VAdd(r.orig, VScale(r.dir, t))

NoMat == 0

\* HitRecord::new()
NewHitRecord ==
    [t |-> Zero, p |-> V(0, 0, 0), normal |-> V(0, 0, 0),
     front_face |-> FALSE, mat |-> NoMat]

\* HitRecord::set_face_normal
set_face_normal(rec, r, outward_normal) ==
    LET ff == Lt(dot(r.dir, outward_normal), Zero)
    IN  [rec EXCEPT !.front_face = ff,
                    !.normal = IF ff THEN outward_normal ELSE VNeg(outward_normal)]

Miss(rec) == [rec |-> rec, hit |-> FALSE]
Found(rec) == [rec |-> rec, hit |-> TRUE]

(***************************************************************************)
(* Sphere                                                                  *)
(***************************************************************************)
SphereNew(center, r, m) ==
    [mat |-> m, center |-> center, kind |-> "Sphere", radius |-> r]

SphereOutsideInclusive(root, t_min, t_max) == Lt(root, t_min) \/ Lt(t_max, root)

\* root <= t_min || t_max <= root
SphereOutside(root, t_min, t_max) == Le(root, t_min) \/ Le(t_max, root)

SphereHit(self, r, t_min, t_max, rec) ==
    LET oc == VSub(r.orig, self.center)
        a == dot(r.dir, r.dir)
        half_b == dot(oc, r.dir)
        c == Sub(dot(oc, oc), Mul(self.radius, self.radius))
        discriminant == Sub(Mul(half_b, half_b), Mul(a, c))
        sqrt_d == Sqrt(discriminant)
        root1 == Div(Sub(Neg(half_b), sqrt_d), a)
        root2 == Div(Add(Neg(half_b), sqrt_d), a)
        Outside(root) == SphereOutside(root, t_min, t_max)
        Accept(root) ==
            LET p == at(r, root)
                outwards_normal == VDiv(VSub(p, self.center), self.radius)
                rec1 == [rec EXCEPT !.t = root, !.p = p]
                rec2 == set_face_normal(rec1, r, outwards_normal)
            IN  Found([rec2 EXCEPT !.mat = self.mat])
    IN  IF Lt(discriminant, Zero) THEN Miss(rec)
        ELSE IF Outside(root1)
             THEN (IF Outside(root2) THEN Miss(rec) ELSE Accept(root2))
             ELSE Accept(root1)

(***************************************************************************)
(* Square                                                                  *)
(***************************************************************************)
\* 1e-8, the parallel-ray tolerance of Square::hit, Disk::hit, Cylinder::hit
Epsilon == <<1, 100000000>>

\* the Square value built from the unit normal and the first axis
SquareAxes(center, unit_normal, size, material, u_axis) ==
    [normal |-> unit_normal, mat |-> material, center |-> center,
     kind |-> "Square", size |-> size, u_axis |-> u_axis,
     v_axis |-> cross(unit_normal, u_axis)]

\* the vector chosen not parallel to the normal
SquareTemp(unit_normal) ==
    IF Gt(FAbs(unit_normal[1]), <<9, 10>>) THEN V(0, 1, 0) ELSE V(1, 0, 0)

SquareFrame(center, unit_normal, size, material) ==
    SquareAxes(center, unit_normal, size, material,
               unit_vector(cross(unit_normal, SquareTemp(unit_normal))))

SquareNew(center, normal, size, material) ==
    SquareFrame(center, unit_vector(normal), size, material)

SquareHorizontal(center, size, material) == SquareNew(center, V(0, 1, 0), size, material)

SquareOutOfBoundsEdge(u_coord, v_coord, half_size) ==
    Ge(FAbs(u_coord), half_size) \/ Ge(FAbs(v_coord), half_size)

\* u_coord.abs() > half_size || v_coord.abs() > half_size
SquareOutOfBounds(u_coord, v_coord, half_size) ==
    Gt(FAbs(u_coord), half_size) \/ Gt(FAbs(v_coord), half_size)

SquareHit(self, r, t_min, t_max, rec) ==
    LET ray_dot_normal == dot(r.dir, self.normal)
        center_to_origin == VSub(self.center, r.orig)
        t == Div(dot(center_to_origin, self.normal), ray_dot_normal)
        hit_point == at(r, t)
        center_to_hit == VSub(hit_point, self.center)
        u_coord == dot(center_to_hit, self.u_axis)
        v_coord == dot(center_to_hit, self.v_axis)
        half_size == Div(self.size, I(2))
        rec1 == [rec EXCEPT !.t = t, !.p = hit_point]
        rec2 == set_face_normal(rec1, r, self.normal)
    IN  IF Lt(FAbs(ray_dot_normal), Epsilon) THEN Miss(rec)
        ELSE IF Le(t, t_min) \/ Ge(t, t_max) THEN Miss(rec)
        ELSE IF SquareOutOfBounds(u_coord, v_coord, half_size) THEN Miss(rec)
        ELSE Found([rec2 EXCEPT !.mat = self.mat])

(***************************************************************************)
(* Disk                                                                    *)
(***************************************************************************)
DiskNew(center, normal, radius, mat) ==
    [normal |-> normal, mat |-> mat, center |-> center, kind |-> "Disk",
     radius |-> radius]

DiskHorizontal(center, radius, mat) == DiskNew(center, V(0, 1, 0), radius, mat)

DiskHit(self, r, t_min, t_max, rec) ==
    LET intersection == dot(r.dir, self.normal)
        center_to_origin == VSub(self.center, r.orig)
        t == Div(dot(center_to_origin, self.normal), intersection)
        hit_point == at(r, t)
        outward_normal == IF Lt(intersection, Zero) THEN self.normal ELSE VNeg(self.normal)
        rec1 == [rec EXCEPT !.t = t, !.p = hit_point]
        rec2 == set_face_normal(rec1, r, outward_normal)
    IN  IF Lt(FAbs(intersection), Epsilon) THEN Miss(rec)
        ELSE IF Lt(t, t_min) \/ Gt(t, t_max) THEN Miss(rec)
        ELSE IF Ge(length_squared(VSub(hit_point, self.center)),
                   Mul(self.radius, self.radius)) THEN Miss(rec)
        ELSE Found([rec2 EXCEPT !.mat = self.mat])

(***************************************************************************)
(* Cylinder                                                                *)
(***************************************************************************)
CylinderNew(base_center, axis, radius, height, material) ==
    [mat |-> material, kind |-> "Cylinder", radius |-> radius,
     base_center |-> base_center, axis |-> unit_vector(axis), height |-> height]

\* the loop state of Cylinder::hit: rec, hit_anything, closest_so_far
CylState(rec, hit_anything, closest_so_far) ==
    [rec |-> rec, hit_anything |-> hit_anything, closest_so_far |-> closest_so_far]

\* the end of one iteration of the tube loop, for a root t inside the range:
\* the axial coordinate v of the point p decides whether the root is taken
CylTubeAccept(self, r, st, t, p, v) ==
    IF Lt(v, Zero) \/ Gt(v, self.height) THEN st
    ELSE CylState(
             [set_face_normal([st.rec EXCEPT !.t = t, !.p = p], r,
                  unit_vector(VSub(VSub(p, self.base_center), VScale(self.axis, v))))
                EXCEPT !.mat = self.mat],
             TRUE, t)

\* let p = r.at(t); let v = dot(p - self.base_center, axis)
CylTubePoint(self, r, st, t, p) ==
    CylTubeAccept(self, r, st, t, p, dot(VSub(p, self.base_center), self.axis))

\* one iteration of the tube loop, for the root t of one sign
CylTubeStep(self, r, t_min, st, t) ==
    IF Lt(t, t_min) \/ Gt(t, st.closest_so_far) THEN st
    ELSE CylTubePoint(self, r, st, t, at(r, t))

\* (-half_b + sign * sqrt_d) / a
CylTubeRoot(a, half_b, sqrt_d, sign) == Div(Add(Neg(half_b), Mul(sign, sqrt_d)), a)

\* for &sign in &[-1.0, 1.0]
CylTubeLoop(self, r, t_min, st, a, half_b, sqrt_d) ==
    CylTubeStep(self, r, t_min,
        CylTubeStep(self, r, t_min, st, CylTubeRoot(a, half_b, sqrt_d, I(-1))),
        CylTubeRoot(a, half_b, sqrt_d, I(1)))

\* the tube intersection: both signs when the discriminant is >= 0
CylTubeSolve(self, r, t_min, st, a, half_b, discriminant) ==
    IF Ge(discriminant, Zero)
    THEN CylTubeLoop(self, r, t_min, st, a, half_b, Sqrt(discriminant))
    ELSE st

\* a, half_b and c of the quadratic of the tube, as <<a, half_b, c>>
CylQuadratic(self, r) ==
    LET oc == VSub(r.orig, self.base_center)
        axis == self.axis
        d_perp == VSub(r.dir, VScale(axis, dot(r.dir, axis)))
        oc_perp == VSub(oc, VScale(axis, dot(oc, axis)))
    IN  << length_squared(d_perp),
           dot(d_perp, oc_perp),
           Sub(length_squared(oc_perp), Mul(self.radius, self.radius)) >>

\* half_b * half_b - a * c
CylDiscriminant(q) == Sub(Mul(q[2], q[2]), Mul(q[1], q[3]))

CylTubeWith(self, r, t_min, st, q) ==
    CylTubeSolve(self, r, t_min, st, q[1], q[2], CylDiscriminant(q))

CylTube(self, r, t_min, st) == CylTubeWith(self, r, t_min, st, CylQuadratic(self, r))

\* the end of one iteration of the cap loop, for the point p at t
CylCapAccept(self, r, st, cap_center, cap_normal_sign, t, p) ==
    IF ~Le(length_squared(VSub(p, cap_center)), Mul(self.radius, self.radius))
    THEN st
    ELSE CylState(
             [set_face_normal([st.rec EXCEPT !.t = t, !.p = p], r,
                  VScale(self.axis, cap_normal_sign))
                EXCEPT !.mat = self.mat],
             TRUE, t)

\* let t = dot(cap_center - r.origin(), axis) / denom
CylCapAt(self, r, t_min, st, cap_center, cap_normal_sign, t) ==
    IF ~(Ge(t, t_min) /\ Le(t, st.closest_so_far)) THEN st
    ELSE CylCapAccept(self, r, st, cap_center, cap_normal_sign, t, at(r, t))

CylCapTest(self, r, t_min, st, cap_center, cap_normal_sign, denom) ==
    IF ~Gt(FAbs(denom), Epsilon) THEN st
    ELSE CylCapAt(self, r, t_min, st, cap_center, cap_normal_sign,
                  Div(dot(VSub(cap_center, r.orig), self.axis), denom))

\* one iteration of the cap loop, for (cap_offset, cap_normal_sign)
CylCapStep(self, r, t_min, st, cap_offset, cap_normal_sign) ==
    CylCapTest(self, r, t_min, st,
               VAdd(self.base_center, VScale(self.axis, cap_offset)),
               cap_normal_sign, dot(r.dir, self.axis))

\* the value returned with the record: rec and hit_anything
HitResult(st) == [rec |-> st.rec, hit |-> st.hit_anything]

CylinderHit(self, r, t_min, t_max, rec) ==
    HitResult(
        CylCapStep(self, r, t_min,
            CylCapStep(self, r, t_min,
                CylTube(self, r, t_min, CylState(rec, FALSE, t_max)),
                Zero, I(1)),
            self.height, I(-1)))

(***************************************************************************)
(* HittableList and Cube                                                   *)
(***************************************************************************)
RECURSIVE Hit(_, _, _, _, _)
RECURSIVE ListScan(_, _, _, _, _)

\* the loop of HittableList::hit from object k on; st holds temp_rec, rec,
\* hit_anything and closest_so_far
\* the body of the loop for the outcome res of object.hit on temp_rec
ListStep(st, res) ==
    IF res.hit
    THEN [rec |-> res.rec, hit_anything |-> TRUE,
          closest_so_far |-> res.rec.t, temp_rec |-> res.rec]
    ELSE [st EXCEPT !.temp_rec = res.rec]

ListScan(objects, k, r, t_min, st) ==
    IF k > Len(objects) THEN st
    ELSE ListScan(objects, k + 1, r, t_min,
             ListStep(st, Hit(objects[k], r, t_min, st.closest_so_far, st.temp_rec)))

ListHit(objects, r, t_min, t_max, rec) ==
    HitResult(ListScan(objects, 1, r, t_min,
                  [rec |-> rec, hit_anything |-> FALSE,
                   closest_so_far |-> t_max, temp_rec |-> NewHitRecord]))

CubeNew(p_min, p_max, material) ==
    LET width == Sub(p_max[1], p_min[1])
        height == Sub(p_max[2], p_min[2])
        depth == Sub(p_max[3], p_min[3])
        center_x == Div(Add(p_min[1], p_max[1]), I(2))
        center_y == Div(Add(p_min[2], p_max[2]), I(2))
        center_z == Div(Add(p_min[3], p_max[3]), I(2))
        Max(x, y) == IF Lt(x, y) THEN y ELSE x
    IN  [kind |-> "Cube",
         sides |->
           << \* front, back
              SquareNew(<<center_x, center_y, p_max[3]>>, V(0, 0, 1),
                        Max(width, height), material),
              SquareNew(<<center_x, center_y, p_min[3]>>, V(0, 0, -1),
                        Max(width, height), material),
              \* top, bottom
              SquareNew(<<center_x, p_max[2], center_z>>, V(0, 1, 0),
                        Max(width, depth), material),
              SquareNew(<<center_x, p_min[2], center_z>>, V(0, -1, 0),
                        Max(width, depth), material),
              \* right, left
              SquareNew(<<p_max[1], center_y, center_z>>, V(1, 0, 0),
                        Max(height, depth), material),
              SquareNew(<<p_min[1], center_y, center_z>>, V(-1, 0, 0),
                        Max(height, depth), material) >>]

CubeHit(self, r, t_min, t_max, rec) == ListHit(self.sides, r, t_min, t_max, rec)

\* dynamic dispatch of Hittable::hit
Hit(object, r, t_min, t_max, rec) ==
    CASE object.kind = "Sphere" -> SphereHit(object, r, t_min, t_max, rec)
      [] object.kind = "Square" -> SquareHit(object, r, t_min, t_max, rec)
      [] object.kind = "Disk" -> DiskHit(object, r, t_min, t_max, rec)
      [] object.kind = "Cylinder" -> CylinderHit(object, r, t_min, t_max, rec)
      [] object.kind = "Cube" -> CubeHit(object, r, t_min, t_max, rec)

(***************************************************************************)
(* The intersection queries: a scene is built with HittableList::add, and  *)
(* one ray is cast at a single object or at the whole list.                *)
(***************************************************************************)
VARIABLES objects, ray, t_min, t_max, rec, hit_anything, called, target

hitVars == <<objects, ray, t_min, t_max, rec, hit_anything, called, target>>

\* the materials built so far (Lambertian::new, Metal::new)
VARIABLES materials

\* write_color: the accumulated pixel colour, the sample count it is
\* averaged over, and the three integers written ("none" before any)
VARIABLES pixel_color, samples_per_pixel, out

writeVars == <<pixel_color, samples_per_pixel, out>>

\* the render loop of main: position (pc, j, i), the samples accumulated for
\* the pixel, and the pixels written so far as <<i, j, samples>>
VARIABLES pc, j, i, sample, emitted

loopVars == <<pc, j, i, sample, emitted>>

\* ray_color: the active call's depth, the depth of the outermost call, the
\* attenuations of the calls waiting for their recursive call (innermost
\* last), the value returned, and the numbers of world.hit and scatter calls
VARIABLES rc_pc, depth, depth0, frames, result, queries, scatters

rcVars == <<rc_pc, depth, depth0, frames, result, queries, scatters>>

\* the outputs of the last Material::scatter call: attenuation, scattered
\* (Color::default() and Ray::default() before any call) and the bool returned
VARIABLES attenuation, scattered, scatter_ret

scatVars == <<attenuation, scattered, scatter_ret>>

\* the screen coordinates u and v main hands to Camera::get_ray ("none"
\* outside an iteration of the sample loop)
VARIABLES u_screen, v_screen

camVars == <<u_screen, v_screen>>

vars == <<hitVars, materials, writeVars, loopVars, rcVars, scatVars, camVars>>

Black == V(0, 0, 0)

\* the values the variables of a part of the program that is not running hold
HitOff ==
    /\ objects = <<>>
    /\ ray = Ray(V(0, 0, 0), V(0, 0, -1))
    /\ t_min = Zero
    /\ t_max = PInf
    /\ rec = NewHitRecord
    /\ hit_anything = FALSE
    /\ called = "off"
    /\ target = "none"

MatOff == materials = <<>>

WriteOff == pixel_color = Black /\ samples_per_pixel = 1 /\ out = "none"

LoopOff == pc = "off" /\ j = 0 /\ i = 0 /\ sample = 0 /\ emitted = <<>>

RCOff ==
    /\ rc_pc = "idle"
    /\ depth = 0
    /\ depth0 = 0
    /\ frames = <<>>
    /\ result = Black
    /\ queries = 0
    /\ scatters = 0

ScatOff ==
    /\ attenuation = Black
    /\ scattered = Ray(V(0, 0, 0), V(0, 0, 0))
    /\ scatter_ret = FALSE

CamOff == u_screen = "none" /\ v_screen = "none"

\* the largest number of objects added to the list
MaxObjects == 2

\* the shapes the scene is built from; all touch the plane y = 0 from below
\* or lie in it, as the shapes of main.rs stand on the ground square
Shapes ==
    { SphereNew(V(0, -1, 0), I(1), 1),
      SquareHorizontal(V(0, 0, 0), I(2), 2),
      DiskHorizontal(V(0, 0, 0), I(2), 3),
      CylinderNew(V(0, -2, 0), V(0, 2, 0), I(1), I(2), 4),
      CubeNew(V(-1, -2, -1), V(1, 0, 1), 5) }

Origins == { V(0, 3, 0), V(3, 3, 0), V(0, -5, 0), V(3, -1, 0), V(0, -1, 0), V(2, 3, 0) }

Directions == { V(0, -1, 0), V(0, 1, 0), V(-1, -1, 0), V(-1, 0, 0), V(0, -2, 0) }

\* (t_min, t_max): the interval of ray_color, and two bounded ones
Intervals == { <<Q(1, 1000), PInf>>, <<I(1), I(3)>>, <<Zero, I(4)>> }

\* the discriminant of the quadratic a shape solves for a ray (Zero for the
\* shapes that solve none)
Discriminant(o, r) ==
    IF o.kind = "Sphere"
    THEN LET oc == VSub(r.orig, o.center)
             a == dot(r.dir, r.dir)
             half_b == dot(oc, r.dir)
             c == Sub(dot(oc, oc), Mul(o.radius, o.radius))
         IN  Sub(Mul(half_b, half_b), Mul(a, c))
    ELSE IF o.kind = "Cylinder"
    THEN CylDiscriminant(CylQuadratic(o, r))
    ELSE Zero

\* the rays whose square roots are all rational
Rays ==
    { r \in { Ray(o, d) : o \in Origins, d \in Directions } :
        \A s \in Shapes : Lt(Discriminant(s, r), Zero) \/ IsSquareQ(Discriminant(s, r)) }

InitHit ==
    /\ objects = <<>>
    /\ ray \in Rays
    /\ \E iv \in Intervals : t_min = iv[1] /\ t_max = iv[2]
    /\ rec = NewHitRecord
    /\ hit_anything = FALSE
    /\ called = "none"
    /\ target = "none"
    /\ MatOff /\ WriteOff /\ LoopOff /\ RCOff /\ ScatOff /\ CamOff

\* HittableList::add
ListAdd(o) ==
    /\ called = "none"
    /\ Len(objects) < MaxObjects
    /\ objects' = Append(objects, o)
    /\ UNCHANGED <<ray, t_min, t_max, rec, hit_anything, called, target>>
    /\ UNCHANGED <<materials, writeVars, loopVars, rcVars, scatVars, camVars>>

\* world.hit(r, t_min, t_max, &mut rec) on the list
CastAtList ==
    /\ called = "none"
    /\ \E res \in { ListHit(objects, ray, t_min, t_max, rec) } :
           rec' = res.rec /\ hit_anything' = res.hit
    /\ called' = "list"
    /\ UNCHANGED <<objects, ray, t_min, t_max, target>>
    /\ UNCHANGED <<materials, writeVars, loopVars, rcVars, scatVars, camVars>>

\* object.hit(r, t_min, t_max, &mut rec) on one object
CastAtObject(o) ==
    /\ called = "none"
    /\ objects = <<>>
    /\ \E res \in { Hit(o, ray, t_min, t_max, rec) } :
           rec' = res.rec /\ hit_anything' = res.hit
    /\ called' = "object"
    /\ target' = o
    /\ UNCHANGED <<objects, ray, t_min, t_max>>
    /\ UNCHANGED <<materials, writeVars, loopVars, rcVars, scatVars, camVars>>

NextHit ==
    \/ \E o \in Shapes : ListAdd(o)
    \/ CastAtList
    \/ \E o \in Shapes : CastAtObject(o)

SpecHit == InitHit /\ [][NextHit]_vars

(***************************************************************************)
(* Cube::hit on boxes: one ray is cast at one box built by Cube::new       *)
(***************************************************************************)
\* (p_min, p_max) with p_min < p_max in every component: a cube, a box that
\* is deeper than wide, and a box that is taller than wide
Boxes ==
    { <<V(-1, -2, -1), V(1, 0, 1)>>,
      <<V(-1, -2, -1), V(1, 0, 3)>>,
      <<V(-1, -4, -1), V(1, 0, 1)>> }

\* rays along the axes towards the boxes, and one diagonal
BoxRays ==
    { Ray(<<x, I(5), Zero>>, V(0, -1, 0)) : x \in { Zero, Q(3, 2), I(2), Q(5, 2) } }
        \cup { Ray(<<I(5), y, Zero>>, V(-1, 0, 0)) : y \in { I(-1), Q(1, 2), I(2) } }
        \cup { Ray(<<x, I(-1), I(5)>>, V(0, 0, -1)) : x \in { Zero, Q(3, 2) } }
        \cup { Ray(V(3, 3, 0), V(-1, -1, 0)) }

InitBox ==
    /\ objects = <<>>
    /\ ray \in BoxRays
    /\ \E iv \in Intervals : t_min = iv[1] /\ t_max = iv[2]
    /\ rec = NewHitRecord
    /\ hit_anything = FALSE
    /\ called = "none"
    /\ target = "none"
    /\ MatOff /\ WriteOff /\ LoopOff /\ RCOff /\ ScatOff /\ CamOff

NextBox == \E b \in Boxes : CastAtObject(CubeNew(b[1], b[2], 5))

SpecBox == InitBox /\ [][NextBox]_vars

(***************************************************************************)
(* Materials                                                               *)
(***************************************************************************)
\* the largest number of materials built
MaxMaterials == 1

LambertianNew(a) == [kind |-> "Lambertian", albedo |-> a]

MetalNew(a, f) ==
    [kind |-> "Metal", albedo |-> a, fuzz |-> IF Lt(f, One) THEN f ELSE One]

\* Lambertian::scatter always returns true; Metal::scatter returns
\* dot(scattered.direction(), rec.normal) > 0.0, which the random fuzz decides
ScatterOutcomes(m) == IF m.kind = "Lambertian" THEN { TRUE } ELSE BOOLEAN

Channels == { Zero, Q(1, 2), One }

Albedos == { <<x, y, z>> : x \in Channels, y \in { Q(1, 2), Q(7, 10) }, z \in Channels }

\* the f64 values handed to Metal::new
Fuzzes == { I(-1), Q(-1, 2), Zero, Q(1, 10), Q(1, 2), One, Q(3, 2), PInf, NInf, NaN }

InitMat == materials = <<>> /\ HitOff /\ WriteOff /\ LoopOff /\ RCOff /\ ScatOff /\ CamOff

BuildLambertian(a) ==
    /\ Len(materials) < MaxMaterials
    /\ materials' = Append(materials, LambertianNew(a))
    /\ UNCHANGED <<hitVars, writeVars, loopVars, rcVars, scatVars, camVars>>

BuildMetal(a, f) ==
    /\ Len(materials) < MaxMaterials
    /\ materials' = Append(materials, MetalNew(a, f))
    /\ UNCHANGED <<hitVars, writeVars, loopVars, rcVars, scatVars, camVars>>

NextMat ==
    \/ \E a \in Albedos : BuildLambertian(a)
    \/ \E a \in Albedos, f \in Fuzzes : BuildMetal(a, f)

SpecMat == InitMat /\ [][NextMat]_vars

(***************************************************************************)
(* Material::scatter                                                       *)
(*                                                                         *)
(* The random vector a scatter call draws is an input of the call: rnd is  *)
(* the value of Vec3::random_in_unit_sphere() for Metal and of             *)
(* Vec3::random_unit_vector() for Lambertian.                              *)
(***************************************************************************)
\* Vec3::reflect(v, n) = v - 2 * dot(v, n) * n
reflect(a, n) == VSub(a, VScale(n, Mul(I(2), dot(a, n))))

\* Vec3::near_zero: every component is below 1e-8 in absolute value
near_zero(a) ==
    Lt(FAbs(a[1]), Epsilon) /\ Lt(FAbs(a[2]), Epsilon) /\ Lt(FAbs(a[3]), Epsilon)

PointsAwayOrAlong(direction, normal) == Ge(dot(direction, normal), Zero)

\* vec3::dot(scattered.direction(), rec.normal) > 0.0
PointsAway(direction, normal) == Gt(dot(direction, normal), Zero)

\* the outputs of Metal::scatter for the scattered direction
MetalScattered(self, hit_rec, direction) ==
    [attenuation |-> self.albedo, scattered |-> Ray(hit_rec.p, direction),
     ret |-> PointsAway(direction, hit_rec.normal)]

MetalScatter(self, r_in, hit_rec, rnd) ==
    MetalScattered(self, hit_rec,
        VAdd(reflect(unit_vector(r_in.dir), hit_rec.normal), VScale(rnd, self.fuzz)))

\* the outputs of Lambertian::scatter for rec.normal + random_unit_vector()
LambertianScattered(self, hit_rec, scatter_direction) ==
    [attenuation |-> self.albedo,
     scattered |-> Ray(hit_rec.p, IF near_zero(scatter_direction) THEN hit_rec.normal
                                  ELSE scatter_direction),
     ret |-> TRUE]

LambertianScatter(self, r_in, hit_rec, rnd) ==
    LambertianScattered(self, hit_rec, VAdd(hit_rec.normal, rnd))

\* dynamic dispatch of Material::scatter
Scatter(m, r_in, hit_rec, rnd) ==
    IF m.kind = "Metal" THEN MetalScatter(m, r_in, hit_rec, rnd)
    ELSE LambertianScatter(m, r_in, hit_rec, rnd)

\* the materials scatter is called on: Metal::new keeps a negative fuzz
ScatterMaterials ==
    { MetalNew(<<Q(1, 5), Q(7, 10), Q(7, 10)>>, f) : f \in { Zero, Q(1, 10), One, Q(-1, 2) } }
        \cup { LambertianNew(<<Q(1, 2), Q(1, 2), Q(1, 2)>>) }

\* directions of incoming rays, of rational length; the last has length 0
IncomingDirections == { V(0, -1, 0), V(0, -2, 0), V(3, -4, 0), V(1, 0, 0), V(0, 0, 0) }

HitNormals == { V(0, 1, 0), V(0, 0, 1) }

\* some points of the open unit ball
UnitBallDraws ==
    { V(0, 0, 0), <<Zero, Q(-4, 5), Zero>>, <<Q(1, 2), Zero, Zero>>,
      <<Zero, Q(1, 2), Q(1, 2)>>, <<Q(-1, 2), Q(-1, 2), Q(-1, 2)>>,
      <<Q(4, 5), Q(-2, 5), Zero>> }

\* some points of the unit sphere
UnitSphereDraws ==
    { V(0, 1, 0), V(0, -1, 0), V(0, 0, -1), <<Q(3, 5), Q(4, 5), Zero>>,
      <<Q(-24, 25), Q(7, 25), Zero>>, <<Q(24, 25), Q(7, 25), Zero>> }

\* the draws of the generator a material uses
Draws(m) == IF m.kind = "Metal" THEN UnitBallDraws ELSE UnitSphereDraws

\* a ray has hit a surface of material 1 at r_in.at(1) with the normal n
InitScatter ==
    /\ \E m \in ScatterMaterials : materials = <<m>>
    /\ objects = <<>>
    /\ \E d \in IncomingDirections : ray = Ray(V(0, 1, 0), d)
    /\ t_min = Q(1, 1000)
    /\ t_max = PInf
    /\ \E n \in HitNormals :
           rec = [NewHitRecord EXCEPT !.t = One, !.p = at(ray, One), !.normal = n,
                                      !.front_face = TRUE, !.mat = 1]
    /\ hit_anything = TRUE
    /\ called = "hit"
    /\ target = "none"
    /\ WriteOff /\ LoopOff /\ RCOff /\ ScatOff /\ CamOff

\* rec.mat.scatter(r, &rec, &mut attenuation, &mut scattered)
ScatterCall(rnd) ==
    /\ called = "hit"
    /\ \E sc \in { Scatter(materials[rec.mat], ray, rec, rnd) } :
           /\ attenuation' = sc.attenuation
           /\ scattered' = sc.scattered
           /\ scatter_ret' = sc.ret
    /\ called' = "scatter"
    /\ UNCHANGED <<objects, ray, t_min, t_max, rec, hit_anything, target>>
    /\ UNCHANGED <<materials, writeVars, loopVars, rcVars, camVars>>

NextScatter == \E rnd \in Draws(materials[1]) : ScatterCall(rnd)

SpecScatter == InitScatter /\ [][NextScatter]_vars

(***************************************************************************)
(* write_color                                                             *)
(*                                                                         *)
(* The channels pass through f64::sqrt, whose values are irrational, so a  *)
(* non-negative value x is carried between the sqrt and the cast as its    *)
(* square: RootOf(q) stands for sqrt(q), ExactRoot(m) for the constant m.  *)
(* The order of [0, +inf] and NaN are preserved, so clamp compares as the  *)
(* code does.                                                              *)
(***************************************************************************)
\* f64::sqrt(q): NaN for a negative or NaN argument
RootOf(q) == IF IsNaN(q) \/ Lt(q, Zero) THEN NaN ELSE q

\* a non-negative constant m
ExactRoot(m) == Mul(m, m)

\* m * x for a non-negative constant m
RootScale(m, x) == Mul(Mul(m, m), x)

\* k * k <= n / d, for naturals k, n and d > 0
SquareAtMost(k, n, d) == k = 0 \/ k <= (n \div d) \div k

\* a power of two h with h * h > n / d
RECURSIVE RootAbove(_, _, _)
RootAbove(n, d, h) == IF SquareAtMost(h, n, d) THEN RootAbove(n, d, 2 * h) ELSE h

\* the largest natural k with k * k <= n / d, given lo * lo <= n / d < hi * hi
RECURSIVE FloorRootIn(_, _, _, _)
FloorRootIn(n, d, lo, hi) ==
    IF hi - lo <= 1 THEN lo
    ELSE LET mid == (lo + hi) \div 2
         IN  IF SquareAtMost(mid, n, d) THEN FloorRootIn(n, d, mid, hi)
             ELSE FloorRootIn(n, d, lo, mid)

FloorRoot(n, d) == FloorRootIn(n, d, 0, RootAbove(n, d, 1))

I32Max == 2147483647

\* x as i32: truncation, saturating, NaN to 0
RootAsI32(x) ==
    IF IsNaN(x) THEN 0
    ELSE IF x[2] = 0 THEN I32Max
    ELSE FloorRoot(x[1], x[2])

ClampNoMax(x, min, max) == IF Lt(x, min) THEN min ELSE x

\* common::clamp
Clamp(x, min, max) ==
    IF Lt(x, min) THEN min
    ELSE IF Gt(x, max) THEN max
    ELSE x

\* the three integers write_color writes for a pixel
write_color(color, spp) ==
    LET scale == Div(One, I(spp))
        r == RootOf(Mul(scale, color[1]))
        g == RootOf(Mul(scale, color[2]))
        b == RootOf(Mul(scale, color[3]))
        lo == ExactRoot(Zero)
        hi == ExactRoot(Q(999, 1000))
    IN  << RootAsI32(RootScale(I(256), Clamp(r, lo, hi))),
           RootAsI32(RootScale(I(256), Clamp(g, lo, hi))),
           RootAsI32(RootScale(I(256), Clamp(b, lo, hi))) >>

\* the largest samples_per_pixel write_color is called with
MaxSamples == 3

\* accumulated channel values: sums of per-sample radiances
ChannelSums == { Zero, Q(1, 4), Q(999, 1000), One, I(2), I(3), I(9), PInf }

InitWrite ==
    /\ pixel_color \in { <<x, y, z>> : x \in ChannelSums, y \in ChannelSums,
                                        z \in { Zero, Q(7, 10), I(3) } }
    /\ samples_per_pixel \in 1..MaxSamples
    /\ out = "none"
    /\ pc = "write"
    /\ j = 0 /\ i = 0 /\ sample = 0 /\ emitted = <<>>
    /\ HitOff /\ MatOff /\ RCOff /\ ScatOff /\ CamOff

WriteColor ==
    /\ pc = "write"
    /\ out' = write_color(pixel_color, samples_per_pixel)
    /\ pc' = "written"
    /\ UNCHANGED <<pixel_color, samples_per_pixel, j, i, sample, emitted>>
    /\ UNCHANGED <<hitVars, materials, rcVars, scatVars, camVars>>

NextWrite == WriteColor

SpecWrite == InitWrite /\ [][NextWrite]_vars

(***************************************************************************)
(* ray_color                                                               *)
(*                                                                         *)
(* The scene is a &dyn Hittable and the scattered ray is random, so what   *)
(* world.hit and scatter return for a ray is a choice: a miss (with the y  *)
(* of the ray's unit direction), or a hit on a material of the scene that  *)
(* scatters or absorbs.  One action is one branch of one call.             *)
(***************************************************************************)
\* the bounce limit handed to ray_color by main
MAX_DEPTH == 2

\* component-wise product of two colours
VMul(a, b) == <<Mul(a[1], b[1]), Mul(a[2], b[2]), Mul(a[3], b[3])>>

\* the materials of scene_all_objects
SceneMaterials ==
    { LambertianNew(<<Q(1, 2), Q(1, 2), Q(1, 2)>>),
      MetalNew(<<Q(1, 5), Q(7, 10), Q(7, 10)>>, Q(1, 10)) }

\* the y components of the unit directions of the rays that miss
UnitYs == { I(-1), Zero, I(1) }

\* the background gradient for a ray whose unit direction has y component y
Background(y) ==
    LET t == Mul(Q(1, 2), Add(y, One))
    IN  VAdd(VScale(V(1, 1, 1), Sub(One, t)), VScale(<<Q(1, 2), Q(7, 10), One>>, t))

\* the gradient colours of the rays that miss
Backgrounds == { Background(y) : y \in UnitYs }

DepthExhaustedLate(d) == d < 0

\* depth <= 0
DepthExhausted(d) == d <= 0

\* ray_color(r, world, d) is entered
EnterRayColor(d) ==
    /\ rc_pc' = "call"
    /\ depth' = d
    /\ depth0' = d
    /\ frames' = <<>>
    /\ result' = Black
    /\ queries' = 0
    /\ scatters' = 0

\* if depth <= 0 { return Color::new(0.0, 0.0, 0.0); }
RCExhausted ==
    /\ rc_pc = "call"
    /\ DepthExhausted(depth)
    /\ result' = Black
    /\ rc_pc' = "return"
    /\ UNCHANGED <<depth, depth0, frames, queries, scatters>>
    /\ UNCHANGED <<hitVars, materials, writeVars, loopVars, scatVars, camVars>>

\* world.hit returns false: the background gradient, c for this ray
RCMiss(c) ==
    /\ rc_pc = "call"
    /\ ~DepthExhausted(depth)
    /\ queries' = queries + 1
    /\ result' = c
    /\ rc_pc' = "return"
    /\ UNCHANGED <<depth, depth0, frames, scatters>>
    /\ UNCHANGED <<hitVars, materials, writeVars, loopVars, scatVars, camVars>>

\* world.hit returns true and scatter returns false: black
RCAbsorb(m) ==
    /\ rc_pc = "call"
    /\ ~DepthExhausted(depth)
    /\ FALSE \in ScatterOutcomes(m)
    /\ queries' = queries + 1
    /\ scatters' = scatters + 1
    /\ result' = Black
    /\ rc_pc' = "return"
    /\ UNCHANGED <<depth, depth0, frames>>
    /\ UNCHANGED <<hitVars, materials, writeVars, loopVars, scatVars, camVars>>

\* world.hit returns true and scatter returns true: the call waits for
\* ray_color(&scattered, world, depth - 1)
RCScatter(m) ==
    /\ rc_pc = "call"
    /\ ~DepthExhausted(depth)
    /\ TRUE \in ScatterOutcomes(m)
    /\ queries' = queries + 1
    /\ scatters' = scatters + 1
    /\ frames' = Append(frames, m.albedo)
    /\ depth' = depth - 1
    /\ UNCHANGED <<rc_pc, depth0, result>>
    /\ UNCHANGED <<hitVars, materials, writeVars, loopVars, scatVars, camVars>>

\* the recursive call returns: attenuation * ray_color(...)
RCReturn ==
    /\ rc_pc = "return"
    /\ frames # <<>>
    /\ result' = VMul(frames[Len(frames)], result)
    /\ frames' = SubSeq(frames, 1, Len(frames) - 1)
    /\ depth' = depth + 1
    /\ UNCHANGED <<rc_pc, depth0, queries, scatters>>
    /\ UNCHANGED <<hitVars, materials, writeVars, loopVars, scatVars, camVars>>

\* the outermost call has returned
Returned == rc_pc = "return" /\ frames = <<>>

\* one step of ray_color in a scene whose missing rays get the gradient
\* colours bs and whose objects have the materials ms
RayColorStep(bs, ms) ==
    \/ RCExhausted
    \/ \E c \in bs : RCMiss(c)
    \/ \E m \in ms : RCAbsorb(m)
    \/ \E m \in ms : RCScatter(m)
    \/ RCReturn

InitColor ==
    /\ rc_pc = "call"
    /\ depth0 \in 0..(MAX_DEPTH + 1)
    /\ depth = depth0
    /\ frames = <<>>
    /\ result = Black
    /\ queries = 0
    /\ scatters = 0
    /\ HitOff /\ MatOff /\ WriteOff /\ LoopOff /\ ScatOff /\ CamOff

NextColor == RayColorStep(Backgrounds, SceneMaterials)

\* ray_color runs to completion: a step that can be taken is taken
FairColor ==
    /\ WF_vars(RCExhausted)
    /\ \A c \in Backgrounds : WF_vars(RCMiss(c))
    /\ \A m \in SceneMaterials : WF_vars(RCAbsorb(m)) /\ WF_vars(RCScatter(m))
    /\ WF_vars(RCReturn)

SpecColor == InitColor /\ [][NextColor]_vars /\ FairColor

(***************************************************************************)
(* ray_color on a scene                                                    *)
(*                                                                         *)
(* Here world.hit is HittableList::hit on a list of objects and scatter is *)
(* the scatter of the material that was hit.  The scene is the ground      *)
(* square and a metal cube, so every intersection is rational; the random  *)
(* draws are those for which the length of the scattered direction is      *)
(* rational too.                                                           *)
(***************************************************************************)
\* the materials of the traced scene, by the number the objects carry
TraceMaterials ==
    << LambertianNew(<<Q(1, 2), Q(1, 2), Q(1, 2)>>),
       MetalNew(<<Q(1, 5), Q(7, 10), Q(7, 10)>>, One) >>

TraceScene ==
    << SquareHorizontal(V(0, 0, 0), I(16), 1),
       CubeNew(V(-1, 0, -1), V(1, 2, 1), 2) >>

\* the camera rays: onto the cube, onto the ground, and past both
TraceRays ==
    { Ray(V(0, 5, 0), V(0, -1, 0)),
      Ray(<<Q(-3, 2), I(4), Zero>>, V(3, -4, 0)),
      Ray(V(3, 5, 0), V(0, -2, 0)),
      Ray(<<Q(3, 2), I(5), Zero>>, V(0, -2, 0)),
      Ray(<<Q(-3, 2), I(5), Zero>>, V(0, -1, 0)),
      Ray(V(0, 5, 0), V(1, 0, 0)),
      Ray(V(0, 5, 0), V(0, 1, 0)) }

\* the draws of the material's generator after which the scattered direction
\* has a rational length
ExactDraws(m, r_in, hit_rec) ==
    { rnd \in Draws(m) :
        IsSquareQ(length_squared(Scatter(m, r_in, hit_rec, rnd).scattered.dir)) }

BranchWithoutAbsorption(hit, scatter_ok) ==
    IF ~hit THEN "background" ELSE "recurse"

\* the branch of ray_color taken for the outcomes of world.hit and scatter
Branch(hit, scatter_ok) ==
    IF ~hit THEN "background" ELSE IF scatter_ok THEN "recurse" ELSE "black"

\* the end of the call for the outputs sc of scatter: the recursive call on
\* the scattered ray, or black
TraceScattered(sc) ==
    /\ attenuation' = sc.attenuation
    /\ scattered' = sc.scattered
    /\ scatter_ret' = sc.ret
    /\ scatters' = scatters + 1
    /\ IF Branch(TRUE, sc.ret) = "recurse"
       THEN /\ frames' = Append(frames, sc.attenuation)
            /\ ray' = sc.scattered
            /\ depth' = depth - 1
            /\ UNCHANGED <<rc_pc, result>>
       ELSE /\ result' = Black
            /\ rc_pc' = "return"
            /\ UNCHANGED <<frames, ray, depth>>

\* the end of the call when world.hit returned false: the gradient
TraceBackground ==
    /\ result' = Background(unit_vector(ray.dir)[2])
    /\ rc_pc' = "return"
    /\ UNCHANGED <<frames, ray, depth, scatters, scatVars>>

\* one call of ray_color with depth > 0, up to its return or its recursive call
TraceCall ==
    /\ rc_pc = "call"
    /\ ~DepthExhausted(depth)
    /\ queries' = queries + 1
    /\ \E res \in { ListHit(objects, ray, Q(1, 1000), PInf, NewHitRecord) } :
           /\ rec' = res.rec
           /\ hit_anything' = res.hit
           /\ IF Branch(res.hit, TRUE) = "background"
              THEN TraceBackground
              ELSE \E rnd \in ExactDraws(materials[res.rec.mat], ray, res.rec) :
                       TraceScattered(Scatter(materials[res.rec.mat], ray, res.rec, rnd))
    /\ UNCHANGED <<objects, t_min, t_max, called, target, depth0>>
    /\ UNCHANGED <<materials, writeVars, loopVars, camVars>>

InitTrace ==
    /\ objects = TraceScene
    /\ materials = TraceMaterials
    /\ ray \in TraceRays
    /\ t_min = Q(1, 1000)
    /\ t_max = PInf
    /\ rec = NewHitRecord
    /\ hit_anything = FALSE
    /\ called = "off"
    /\ target = "none"
    /\ rc_pc = "call"
    /\ depth0 \in 0..MAX_DEPTH
    /\ depth = depth0
    /\ frames = <<>>
    /\ result = Black
    /\ queries = 0
    /\ scatters = 0
    /\ WriteOff /\ LoopOff /\ ScatOff /\ CamOff

NextTrace ==
    \/ RCExhausted
    \/ TraceCall
    \/ RCReturn

SpecTrace == InitTrace /\ [][NextTrace]_vars

(***************************************************************************)
(* The render loop of main                                                 *)
(***************************************************************************)
ASPECT_RATIO == Q(3, 2)

IMAGE_WIDTH == 3

\* (IMAGE_WIDTH as f64 / ASPECT_RATIO) as i32
IMAGE_HEIGHT == LET h == Div(I(IMAGE_WIDTH), ASPECT_RATIO) IN h[1] \div h[2]

SAMPLES_PER_PIXEL == 2

\* (0..IMAGE_HEIGHT - 1).rev(): the top row is never rendered
FirstRowOffByOne == IMAGE_HEIGHT - 2

\* for j in (0..IMAGE_HEIGHT).rev()
FirstRow == IMAGE_HEIGHT - 1

InitRender ==
    /\ pc = "loop"
    /\ j = FirstRow
    /\ i = 0
    /\ sample = 0
    /\ pixel_color = Black
    /\ samples_per_pixel = SAMPLES_PER_PIXEL
    /\ out = "none"
    /\ emitted = <<>>
    /\ HitOff /\ MatOff /\ RCOff /\ ScatOff /\ CamOff

\* values of common::random_double(), which lies in [0, 1)
RandomDoubles == { Zero, Q(1, 2) }

\* (k as f64 + random_double()) / (extent - 1) as f64
ScreenCoordinate(k, rd, extent) == Div(Add(I(k), rd), I(extent - 1))

\* one iteration of the sample loop begins: u, v, cam.get_ray(u, v) and
\* ray_color(&r, &world, MAX_DEPTH)
BeginSample ==
    /\ pc = "loop"
    /\ rc_pc = "idle"
    /\ sample < SAMPLES_PER_PIXEL
    /\ \E rd \in RandomDoubles : u_screen' = ScreenCoordinate(i, rd, IMAGE_WIDTH)
    /\ \E rd \in RandomDoubles : v_screen' = ScreenCoordinate(j, rd, IMAGE_HEIGHT)
    /\ EnterRayColor(MAX_DEPTH)
    /\ UNCHANGED <<hitVars, materials, writeVars, loopVars, scatVars>>

\* pixel_color += ray_color(...); the value returned is a temporary
Accumulate ==
    /\ pc = "loop"
    /\ Returned
    /\ pixel_color' = VAdd(pixel_color, result)
    /\ sample' = sample + 1
    /\ rc_pc' = "idle"
    /\ depth' = 0
    /\ depth0' = 0
    /\ result' = Black
    /\ queries' = 0
    /\ scatters' = 0
    /\ UNCHANGED frames
    /\ u_screen' = "none"
    /\ v_screen' = "none"
    /\ UNCHANGED <<samples_per_pixel, out, pc, j, i, emitted>>
    /\ UNCHANGED <<hitVars, materials, scatVars>>

\* the sample loop is over: write_color, then the next pixel with a fresh
\* accumulator, the next row, or the end of the image
WritePixel ==
    /\ pc = "loop"
    /\ rc_pc = "idle"
    /\ ~(sample < SAMPLES_PER_PIXEL)
    /\ out' = write_color(pixel_color, samples_per_pixel)
    /\ emitted' = Append(emitted, <<i, j, sample>>)
    /\ pixel_color' = Black
    /\ sample' = 0
    /\ IF i + 1 < IMAGE_WIDTH
       THEN i' = i + 1 /\ UNCHANGED <<j, pc>>
       ELSE /\ i' = 0
            /\ IF j > 0 THEN j' = j - 1 /\ pc' = pc ELSE j' = j /\ pc' = "done"
    /\ UNCHANGED samples_per_pixel
    /\ UNCHANGED <<hitVars, materials, rcVars, scatVars, camVars>>

\* the rendered scene: every ray that misses is horizontal, every object is
\* of the metal of SceneMaterials
RenderBackgrounds == { Background(Zero) }

RenderMaterials == { m \in SceneMaterials : m.kind = "Metal" }

NextRender ==
    \/ BeginSample
    \/ RayColorStep(RenderBackgrounds, RenderMaterials)
    \/ Accumulate
    \/ WritePixel

SpecRender == InitRender /\ [][NextRender]_vars

(***************************************************************************)
(* Claims about the intersection queries                                   *)
(***************************************************************************)
\* object k of the list queried alone with the interval of the call
Alone(k) == Hit(objects[k], ray, t_min, t_max, NewHitRecord)

\* C1: HittableList.hit returns true exactly when some object of the list,
\* queried alone with (t_min, t_max), reports a hit, and then the record's t
\* is <= the t every object reports when queried alone.
C1_ClosestHit ==
    called = "list" =>
        /\ hit_anything <=> \E k \in 1..Len(objects) : Alone(k).hit
        /\ hit_anything =>
               \A k \in 1..Len(objects) : Alone(k).hit => Le(rec.t, Alone(k).rec.t)

\* C2: when two objects of the list intersect the ray at exactly the same t,
\* the closest in the interval, HittableList.hit returns the record of the
\* one that comes first in insertion order, whatever their kinds.
C2_FirstWinsTie ==
    called = "list" =>
        \A fst, snd \in 1..Len(objects) :
            ( /\ fst < snd
              /\ Alone(fst).hit
              /\ Alone(snd).hit
              /\ Alone(fst).rec.t = Alone(snd).rec.t
              /\ \A k \in 1..Len(objects) :
                     Alone(k).hit => Le(Alone(fst).rec.t, Alone(k).rec.t)
              /\ \A k \in 1..(fst - 1) :
                     Alone(k).hit => Alone(k).rec.t # Alone(fst).rec.t )
            => (hit_anything /\ rec = Alone(fst).rec)

\* the geometric outward normals of a primitive at a point of its surface
\* (several where two surfaces of a cylinder meet)
OutwardNormals(o, p) ==
    CASE o.kind = "Sphere" -> { VDiv(VSub(p, o.center), o.radius) }
      [] o.kind = "Square" -> { o.normal }
      [] o.kind = "Disk" -> { o.normal }
      [] o.kind = "Cylinder" ->
            LET rel == VSub(p, o.base_center)
                v == dot(rel, o.axis)
                radial == VSub(rel, VScale(o.axis, v))
            IN  (IF v = Zero THEN { VNeg(o.axis) } ELSE {})
                \cup (IF v = o.height THEN { o.axis } ELSE {})
                \cup (IF length_squared(radial) = Mul(o.radius, o.radius)
                      THEN { VDiv(radial, o.radius) } ELSE {})

\* C4: whenever a primitive's hit returns true the stored normal points
\* against the ray, dot(ray.direction, rec.normal) <= 0, and front_face is
\* true exactly when the ray direction has a negative dot product with the
\* primitive's geometric outward normal.
C4_NormalAgainstRay ==
    (called = "object" /\ target.kind # "Cube" /\ hit_anything) =>
        /\ Le(dot(ray.dir, rec.normal), Zero)
        /\ rec.front_face =>
               \E n \in OutwardNormals(target, rec.p) : Lt(dot(ray.dir, n), Zero)
        /\ ~rec.front_face =>
               \E n \in OutwardNormals(target, rec.p) : ~Lt(dot(ray.dir, n), Zero)

StrictlyInside(t) == Lt(t_min, t) /\ Lt(t, t_max)

\* the roots of |O + t D - C|^2 = r^2 for the sphere `target`
SphereSmallRoot ==
    LET oc == VSub(ray.orig, target.center)
    IN  Div(Sub(Neg(dot(oc, ray.dir)), Sqrt(Discriminant(target, ray))),
            dot(ray.dir, ray.dir))

SphereLargeRoot ==
    LET oc == VSub(ray.orig, target.center)
    IN  Div(Add(Neg(dot(oc, ray.dir)), Sqrt(Discriminant(target, ray))),
            dot(ray.dir, ray.dir))

\* the ray starts outside the sphere `target` and is aimed at its center
AimedAtCenter ==
    LET to_center == VSub(target.center, ray.orig)
    IN  /\ Gt(length_squared(to_center), Mul(target.radius, target.radius))
        /\ cross(to_center, ray.dir) = V(0, 0, 0)
        /\ Gt(dot(to_center, ray.dir), Zero)

\* C5: Sphere.hit reports the smaller root when it lies strictly inside
\* (t_min, t_max), otherwise the larger root when that one does, otherwise a
\* miss; for a ray from outside aimed at the center the hit point is at
\* distance r from the center, on the near side, with the normal pointing
\* away from the center.
C5_SphereRoots ==
    (called = "object" /\ target.kind = "Sphere") =>
        LET real == ~Lt(Discriminant(target, ray), Zero)
            expected ==
                IF real /\ StrictlyInside(SphereSmallRoot) THEN SphereSmallRoot
                ELSE IF real /\ StrictlyInside(SphereLargeRoot) THEN SphereLargeRoot
                ELSE NaN
            from_center == VSub(rec.p, target.center)
        IN  /\ hit_anything <=> ~IsNaN(expected)
            /\ hit_anything =>
                   /\ rec.t = expected
                   /\ rec.p = at(ray, rec.t)
                   /\ length_squared(from_center) = Mul(target.radius, target.radius)
            /\ (hit_anything /\ AimedAtCenter /\ StrictlyInside(SphereSmallRoot)) =>
                   /\ Gt(dot(from_center, VSub(ray.orig, target.center)), Zero)
                   /\ Gt(dot(rec.normal, from_center), Zero)

C5_Witness ==
    /\ called = "object"
    /\ target.kind = "Sphere"
    /\ hit_anything
    /\ ~StrictlyInside(SphereSmallRoot)
    /\ rec.t = SphereLargeRoot

\* C6: Square.hit returns true exactly when the ray is not parallel to the
\* plane, the plane parameter t lies strictly inside (t_min, t_max) and both
\* in-plane coordinates of the hit point are at most s/2 in absolute value;
\* a unit ray from above aimed at the center of a horizontal square hits
\* with t the vertical distance, and one aimed beyond s/2 from the center
\* along an in-plane axis misses.
C6_SquareHit ==
    (called = "object" /\ target.kind = "Square") =>
        LET n == target.normal
            dn == dot(ray.dir, n)
            parallel == dn = Zero
            t == Div(dot(VSub(target.center, ray.orig), n), dn)
            off == VSub(at(ray, t), target.center)
            half == Div(target.size, I(2))
            above == /\ n = V(0, 1, 0)
                     /\ ray.dir = V(0, -1, 0)
                     /\ Gt(ray.orig[2], target.center[2])
            height == Sub(ray.orig[2], target.center[2])
            dx == Sub(ray.orig[1], target.center[1])
            dz == Sub(ray.orig[3], target.center[3])
        IN  /\ dot(target.u_axis, n) = Zero
            /\ dot(target.v_axis, n) = Zero
            /\ dot(target.u_axis, target.v_axis) = Zero
            /\ length_squared(target.u_axis) = One
            /\ length_squared(target.v_axis) = One
            /\ hit_anything <=>
                   /\ ~parallel
                   /\ StrictlyInside(t)
                   /\ Le(FAbs(dot(off, target.u_axis)), half)
                   /\ Le(FAbs(dot(off, target.v_axis)), half)
            /\ hit_anything => (rec.t = t /\ rec.p = at(ray, t))
            /\ (above /\ dx = Zero /\ dz = Zero /\ StrictlyInside(height)) =>
                   (hit_anything /\ rec.t = height)
            /\ (above /\ (Gt(FAbs(dx), half) \/ Gt(FAbs(dz), half))) => ~hit_anything

C6_Witness ==
    /\ called = "object"
    /\ target.kind = "Square"
    /\ hit_anything
    /\ ray.dir = V(0, -1, 0)
    /\ ray.orig[1] = target.center[1]
    /\ ray.orig[3] = target.center[3]
    /\ rec.t = Sub(ray.orig[2], target.center[2])

\* the candidates of Cylinder.hit for the cylinder `target`: the lateral
\* roots whose axial coordinate is in [0, height] and the cap intersections
\* within radius^2 of the cap center, inside the interval
CylinderCandidates ==
    LET o == target
        oc == VSub(ray.orig, o.base_center)
        d_perp == VSub(ray.dir, VScale(o.axis, dot(ray.dir, o.axis)))
        oc_perp == VSub(oc, VScale(o.axis, dot(oc, o.axis)))
        a == length_squared(d_perp)
        half_b == dot(d_perp, oc_perp)
        disc == Discriminant(o, ray)
        InInterval(t) == Le(t_min, t) /\ Le(t, t_max)
        Axial(t) == dot(VSub(at(ray, t), o.base_center), o.axis)
        lateral ==
            IF a # Zero /\ Ge(disc, Zero)
            THEN { t \in { Div(Sub(Neg(half_b), Sqrt(disc)), a),
                           Div(Add(Neg(half_b), Sqrt(disc)), a) } :
                     InInterval(t) /\ Le(Zero, Axial(t)) /\ Le(Axial(t), o.height) }
            ELSE {}
        Cap(offset) ==
            LET cap_center == VAdd(o.base_center, VScale(o.axis, offset))
                denom == dot(ray.dir, o.axis)
                t == Div(dot(VSub(cap_center, ray.orig), o.axis), denom)
            IN  IF denom # Zero /\ InInterval(t)
                   /\ Le(length_squared(VSub(at(ray, t), cap_center)),
                         Mul(o.radius, o.radius))
                THEN { t } ELSE {}
    IN  lateral \cup Cap(Zero) \cup Cap(o.height)

\* C10: Cylinder.hit returns, when at least one candidate passes its
\* containment test inside the interval, the record of the candidate with
\* the smallest t, and returns false exactly when no candidate passes.
C10_CylinderClosest ==
    (called = "object" /\ target.kind = "Cylinder") =>
        /\ hit_anything <=> CylinderCandidates # {}
        /\ hit_anything =>
               /\ rec.t \in CylinderCandidates
               /\ \A t \in CylinderCandidates : Le(rec.t, t)
               /\ rec.p = at(ray, rec.t)

(***************************************************************************)
(* Claims about ray_color, write_color, the render loop and the materials  *)
(***************************************************************************)
\* C3: a call ray_color(ray, scene, depth) with depth >= 0 terminates after
\* at most depth scene intersection queries and at most depth scatter calls,
\* and with depth = 0 it returns black without querying the scene.
C3_DepthBoundsWork ==
    /\ [](queries <= depth0 /\ scatters <= depth0)
    /\ []((Returned /\ depth0 = 0) => (result = Black /\ queries = 0))
    /\ <>Returned

C3_Witness ==
    /\ Returned
    /\ depth0 = MAX_DEPTH
    /\ queries = depth0
    /\ scatters = depth0

\* 256 * clamp(sqrt(x), 0, 0.999) truncated, for a non-negative x, is k
Quantised(x, k) ==
    IF x = PInf \/ Gt(x, Q(998001, 1000000)) THEN k = 255
    ELSE k * k * x[2] <= 65536 * x[1] /\ 65536 * x[1] < (k + 1) * (k + 1) * x[2]

\* C7: for a pixel colour with non-negative channels and samples_per_pixel
\* >= 1, write_color emits for each channel the integer part of
\* 256 * clamp(sqrt(channel / samples_per_pixel), 0, 0.999), an integer in
\* 0..255.
C7_WriteColorRange ==
    pc = "written" =>
        \A c \in 1..3 :
            /\ out[c] \in 0..255
            /\ Quantised(Div(pixel_color[c], I(samples_per_pixel)), out[c])

C7_Witness ==
    /\ pc = "written"
    /\ samples_per_pixel = 1
    /\ pixel_color = <<I(9), Q(1, 4), Q(7, 10)>>
    /\ out = <<255, 128, 214>>

\* C8: the render loop emits exactly IMAGE_WIDTH * IMAGE_HEIGHT pixel
\* colours, one per pixel, rows from j = IMAGE_HEIGHT - 1 down to j = 0 and
\* columns i = 0 .. IMAGE_WIDTH - 1 ascending within a row, each after
\* exactly SAMPLES_PER_PIXEL ray_color values were accumulated for it, its
\* accumulator starting at black.
C8_RasterOrder ==
    /\ \A k \in 1..Len(emitted) :
           emitted[k] = << (k - 1) % IMAGE_WIDTH,
                           IMAGE_HEIGHT - 1 - ((k - 1) \div IMAGE_WIDTH),
                           SAMPLES_PER_PIXEL >>
    /\ Len(emitted) <= IMAGE_WIDTH * IMAGE_HEIGHT
    /\ pc = "done" => Len(emitted) = IMAGE_WIDTH * IMAGE_HEIGHT
    /\ (pc = "loop" /\ sample = 0) => pixel_color = Black
    /\ pc = "loop" => (i = Len(emitted) % IMAGE_WIDTH
                       /\ j = IMAGE_HEIGHT - 1 - (Len(emitted) \div IMAGE_WIDTH))

C8_Witness ==
    /\ pc = "done"
    /\ Len(emitted) = IMAGE_WIDTH * IMAGE_HEIGHT
    /\ emitted[Len(emitted)] = <<IMAGE_WIDTH - 1, 0, SAMPLES_PER_PIXEL>>

\* C9: for every Metal built by Metal::new(albedo, f), for any f, the stored
\* fuzz lies in [0, 1].
C9_FuzzInUnitInterval ==
    \A k \in 1..Len(materials) :
        materials[k].kind = "Metal" =>
            Le(Zero, materials[k].fuzz) /\ Le(materials[k].fuzz, One)

(***************************************************************************)
(* Claims about Material::scatter and the integrator's branches            *)
(***************************************************************************)
\* C12: Metal.scatter returns true exactly when the scattered direction
\* reflect(unit(incoming), normal) + fuzz * random_in_unit_sphere has a
\* strictly positive dot product with the hit normal; the scattered ray
\* starts at the hit point and the attenuation is the albedo.
C12_MetalScatter ==
    (called = "scatter" /\ materials[rec.mat].kind = "Metal") =>
        /\ scattered.orig = rec.p
        /\ attenuation = materials[rec.mat].albedo
        /\ \E rnd \in UnitBallDraws :
               scattered.dir =
                   VAdd(reflect(unit_vector(ray.dir), rec.normal),
                        VScale(rnd, materials[rec.mat].fuzz))
        /\ scatter_ret <=> Lt(Zero, dot(scattered.dir, rec.normal))

\* a fuzzed reflection that lies in the surface (dot product exactly 0) is
\* absorbed
C12_Witness ==
    /\ called = "scatter"
    /\ materials[rec.mat].kind = "Metal"
    /\ materials[rec.mat].fuzz = One
    /\ ray.dir = V(3, -4, 0)
    /\ scattered.dir = <<Q(3, 5), Zero, Zero>>
    /\ dot(scattered.dir, rec.normal) = Zero
    /\ scatter_ret = FALSE

\* the gradient (1 - t) * (1, 1, 1) + t * (0.5, 0.7, 1) at
\* t = 0.5 * (unit(direction).y + 1)
Gradient(direction) ==
    LET t == Div(Add(unit_vector(direction)[2], One), I(2))
    IN  << Add(Sub(One, t), Mul(t, Q(1, 2))),
           Add(Sub(One, t), Mul(t, Q(7, 10))),
           Add(Sub(One, t), t) >>

\* C11: a call of ray_color with depth > 0 takes exactly one of three
\* branches: when the scene reports no hit in (0.001, +inf) it returns the
\* background gradient of the ray direction and calls no material; when
\* there is a hit and scatter signals absorption it returns black without
\* recursing; when the material scatters it calls itself on the scattered
\* ray with depth - 1 and returns the component-wise product of the
\* attenuation and the value of that call.
C11_ThreeOutcomes ==
    /\ [][ (rc_pc = "call" /\ depth > 0) =>
            IF ~ListHit(objects, ray, Q(1, 1000), PInf, NewHitRecord).hit
            THEN /\ rc_pc' = "return"
                 /\ result' = Gradient(ray.dir)
                 /\ scatters' = scatters
                 /\ frames' = frames /\ depth' = depth
            ELSE /\ scatters' = scatters + 1
                 /\ IF scatter_ret'
                    THEN /\ rc_pc' = "call"
                         /\ depth' = depth - 1
                         /\ ray' = scattered'
                         /\ frames' = Append(frames, attenuation')
                    ELSE /\ rc_pc' = "return"
                         /\ result' = Black
                         /\ frames' = frames /\ depth' = depth ]_vars
    /\ [][ (rc_pc = "return" /\ frames # <<>>) =>
            /\ result' = << Mul(frames[Len(frames)][1], result[1]),
                            Mul(frames[Len(frames)][2], result[2]),
                            Mul(frames[Len(frames)][3], result[3]) >>
            /\ frames' = SubSeq(frames, 1, Len(frames) - 1)
            /\ rc_pc' = "return" ]_vars

\* a ray that is scattered by the first surface and then misses the scene:
\* the value returned is the attenuation times the gradient
C11_Witness ==
    /\ Returned
    /\ objects = TraceScene
    /\ depth0 = MAX_DEPTH
    /\ queries = 2
    /\ scatters = 1
    /\ scatter_ret = TRUE
    /\ hit_anything = FALSE
    /\ result # Black
    /\ result = << Mul(attenuation[1], Gradient(ray.dir)[1]),
                   Mul(attenuation[2], Gradient(ray.dir)[2]),
                   Mul(attenuation[3], Gradient(ray.dir)[3]) >>

(***************************************************************************)
(* Claims about the screen coordinates, the cube and the cylinder          *)
(***************************************************************************)
\* C13: every call Camera.get_ray(s, t) of the render loop passes
\* 0 <= s <= 1 and 0 <= t <= 1, for every pixel and every jitter in [0, 1).
C13_ScreenCoordinatesInUnitSquare ==
    (pc = "loop" /\ rc_pc # "idle") =>
        /\ Le(Zero, u_screen) /\ Le(u_screen, One)
        /\ Le(Zero, v_screen) /\ Le(v_screen, One)

\* C14: for every Cube built by Cube::new(p_min, p_max, material) with
\* p_min < p_max component-wise, every hit point reported by Cube.hit has
\* all its coordinates within the extents of the box [p_min, p_max].
C14_HitPointOnBox ==
    (called = "object" /\ hit_anything) =>
        \A b \in Boxes :
            (target = CubeNew(b[1], b[2], 5)) =>
                \A k \in 1..3 : Le(b[1][k], rec.p[k]) /\ Le(rec.p[k], b[2][k])

\* C15: whenever Cylinder.hit returns true, also for a ray parallel to the
\* axis (a = 0 in the lateral quadratic), rec.t is finite with
\* t_min <= rec.t <= t_max and rec.p = ray.at(rec.t); a ray parallel to the
\* axis is reported as a cap hit (normal along the axis), never as a hit of
\* the lateral surface.
C15_CylinderHitDefined ==
    (called = "object" /\ target.kind = "Cylinder" /\ hit_anything) =>
        /\ IsFinite(rec.t)
        /\ Le(t_min, rec.t) /\ Le(rec.t, t_max)
        /\ rec.p = at(ray, rec.t)
        /\ (cross(ray.dir, target.axis) = V(0, 0, 0)) =>
               (rec.normal = target.axis \/ rec.normal = VNeg(target.axis))

====
